---- MODULE Spec2Model ----
(***************************************************************************)
(* The Python runtime of jsii: the reference map (jsii/_reference_map.py)  *)
(* and the kernel facade (jsii/_kernel/__init__.py).                       *)
(*                                                                         *)
(* The program is single threaded.  A Kernel operation blocks in a         *)
(* Provider round trip; the model's state between two steps is either the  *)
(* application between two calls (pc = "idle"), a call blocked in the      *)
(* Provider (pc = "wait") or a call that has just returned or raised       *)
(* (pc = "done").  Everything the code does between two round trips is     *)
(* one step.                                                               *)
(***************************************************************************)
EXTENDS Integers, Sequences, FiniteSets, TLC

VARIABLES
    classes,     \* the Python classes: name -> [base, dict, abstract, proxy]
    objs,        \* the heap of local instances: id -> [alive, cls, ref, via]
    refs,        \* _ReferenceMap._refs: the WeakValueDictionary, ref -> id
    pc,          \* "idle", "wait" or "done"
    op,          \* the Kernel / reference map call in progress or just ended
    stack,       \* the Python frames of the call that wait for a nested get
    pending,     \* the request the Provider has not answered yet
    sent,        \* the requests sent to the Provider since the call began
    reply,       \* the Provider's last response
    result,      \* what the call returned or raised
    nextRemote,  \* the Provider's instance counter
    gone         \* history: the refs whose registered proxy was collected since
                 \* the last call returned and that were not registered again

vars == <<classes, objs, refs, pc, op, stack, pending, sent, reply,
          result, nextRemote, gone>>

-----------------------------------------------------------------------------
(* Bounds of the model.                                                    *)

\* local instances alive at the same time
MaxInst == 2
\* create requests the Provider answers
MaxRemote == 2
\* nested kernel.get calls before Python's recursion limit is hit
MaxDepth == 2
\* members the local classes Sub and Mid define, together (SpecOv)
MaxMembers == 3

-----------------------------------------------------------------------------
(* Remote references.  ObjRef.ref is the string "<fqn>@<id>"; a string is  *)
(* modelled as the sequence of its tokens, "@" being a token of its own,   *)
(* so that a scoped fqn ("@scope/pkg.Type") holds an "@" too.              *)

NoRef == <<>>

FooFqn == <<"Foo">>
AbsFqn == <<"Abs">>
PtFqn == <<"@", "Pt">>
ZedFqn == <<"Zed">>

MkRef(fqn, id) == fqn \o <<"@", id>>

\* ref.ref.rsplit("@", 1)[0]
ClassFqn(s) ==
    LET at == {i \in 1..Len(s) : s[i] = "@"}
    IN  IF at = {} THEN s
        ELSE SubSeq(s, 1, (CHOOSE i \in at : \A j \in at : i >= j) - 1)

-----------------------------------------------------------------------------
(* Classes.  A class __dict__ is the ordered sequence of its members; a    *)
(* member is a function, a property (a data descriptor) or a plain         *)
(* attribute.  jsii: the __jsii_name__ of the function, or of the          *)
(* property's fget; "" when it has none.                                   *)

Member(n, k, j) == [name |-> n, kind |-> k, jsii |-> j]

Nothing == Member("", "nothing", "")

FooDict == << Member("m", "function", "rm"),
              Member("p", "property", "rp"),
              Member("h", "function", ""),
              Member("q", "property", ""),
              Member("a", "attr", "") >>

Class(b, d, abs, px) == [base |-> b, dict |-> d, abstract |-> abs, proxy |-> px]

ClassNames == {"object", "Foo", "Mid", "Sub", "Abs", "AbsProxy"}

BaseClasses ==
    [c \in ClassNames |->
        CASE c = "object"   -> Class("", <<>>, FALSE, "")
          [] c = "Foo"      -> Class("object", FooDict, FALSE, "")
          [] c = "Mid"      -> Class("Foo", <<>>, FALSE, "")
          [] c = "Sub"      -> Class("Mid", << Member("m", "function", ""),
                                               Member("p", "property", "") >>,
                                     FALSE, "")
          [] c = "Abs"      -> Class("object", << Member("m", "function", "rm") >>,
                                     TRUE, "AbsProxy")
          [] c = "AbsProxy" -> Class("Abs", <<>>, FALSE, "")]

\* klass.__jsii_type__
JsiiType(c) ==
    CASE c \in {"Foo", "Mid", "Sub"} -> FooFqn
      [] c \in {"Abs", "AbsProxy"}   -> AbsFqn
      [] OTHER                       -> <<>>

\* _types and _data_types after the generated bindings have been loaded
types == (FooFqn :> "Foo") @@ (AbsFqn :> "Abs")

data_types == (PtFqn :> <<"x", "y">>)

RECURSIVE Mro(_)
\* type(obj).mro() of a single-inheritance chain
Mro(c) == IF c = "" THEN <<>> ELSE <<c>> \o Mro(classes[c].base)

InMro(k, c) == \E i \in 1..Len(Mro(c)) : Mro(c)[i] = k

RECURSIVE Lookup(_, _)
Lookup(d, n) ==
    IF d = <<>> THEN Nothing
    ELSE IF Head(d).name = n THEN Head(d) ELSE Lookup(Tail(d), n)

RECURSIVE GetAttrIn(_, _)
GetAttrIn(mro, n) ==
    IF mro = <<>> THEN Nothing
    ELSE IF Lookup(classes[Head(mro)].dict, n) # Nothing
         THEN Lookup(classes[Head(mro)].dict, n)
         ELSE GetAttrIn(Tail(mro), n)

\* getattr(klass, name, _nothing)
GetAttr(klass, n) == GetAttrIn(Mro(klass), n)

IsFunction(item) == item.kind = "function"

IsDataDescriptor(item) == item.kind = "property"

\* hasattr(original, "__jsii_name__"): a property object has no such attribute
HasJsiiName(original) == original.kind = "function" /\ original.jsii # ""

\* original.fget exists
HasFget(original) == original.kind = "property"

Override(m, p, c) == [method |-> m, property |-> p, cookie |-> c]

NoOverrides == [err |-> "", list |-> <<>>]

\* one member of an intermediate class, lines 46-57
OverrideOfItem(klass, item, acc) ==
    LET original == GetAttr(klass, item.name)
    IN  IF acc.err # "" THEN acc
        ELSE IF original = Nothing THEN acc
        ELSE IF IsFunction(item) /\ HasJsiiName(original)
             THEN [acc EXCEPT !.list = Append(@, Override(original.jsii, "", item.name))]
        ELSE IF IsDataDescriptor(item)
             THEN IF ~HasFget(original)
                  THEN [acc EXCEPT !.err = "AttributeError"]
                  ELSE IF original.jsii # ""
                       THEN [acc EXCEPT !.list =
                                Append(@, Override("", original.jsii, item.name))]
                       ELSE acc
        ELSE acc

RECURSIVE OverridesOfDict(_, _, _)
OverridesOfDict(klass, d, acc) ==
    IF d = <<>> THEN acc
    ELSE OverridesOfDict(klass, Tail(d), OverrideOfItem(klass, Head(d), acc))

RECURSIVE OverridesOfMroThrough(_, _, _)
\* as OverridesOfMro, but the walk stops after the declared type, not before
OverridesOfMroThrough(klass, mro, acc) ==
    IF mro = <<>> \/ acc.err # "" THEN acc
    ELSE IF Head(mro) = klass
         THEN OverridesOfDict(klass, classes[klass].dict, acc)
         ELSE OverridesOfMroThrough(klass, Tail(mro),
                                    OverridesOfDict(klass, classes[Head(mro)].dict, acc))

RECURSIVE OverridesOfMro(_, _, _)
\* lines 39-41: for mro_klass in type(obj).mro(), until mro_klass is klass
OverridesOfMro(klass, mro, acc) ==
    IF mro = <<>> \/ Head(mro) = klass \/ acc.err # "" THEN acc
    ELSE OverridesOfMro(klass, Tail(mro),
                        OverridesOfDict(klass, classes[Head(mro)].dict, acc))

\* _get_overides(klass, obj), obj an instance of class c
GetOverrides(klass, c) == OverridesOfMro(klass, Mro(c), NoOverrides)

-----------------------------------------------------------------------------
(* Values.  What the Provider returns is built from scalars, ObjRef        *)
(* markers, mappings and lists; what the Kernel returns may also hold      *)
(* local proxies.  items is a sequence of [k, v]: the entries of a mapping *)
(* in order, or the elements of a list (k = "").                           *)

Value(t, n, r, its) == [tag |-> t, n |-> n, ref |-> r, items |-> its]

None == Value("none", 0, NoRef, <<>>)

Scalar(n) == Value("scalar", n, NoRef, <<>>)

ObjRef(r) == Value("ref", 0, r, <<>>)

Mapping(its) == Value("map", 0, NoRef, its)

List(its) == Value("list", 0, NoRef, its)

Proxy(i) == Value("proxy", i, NoRef, <<>>)

\* Statistics(object_count=n)
Statistics(n) == Value("stats", n, NoRef, <<>>)

Item(k, v) == [k |-> k, v |-> v]

\* isinstance(d, collections.abc.Mapping)
IsMapping(d) == d.tag = "map"

\* isinstance(d, ObjRef)
IsObjRef(d) == d.tag = "ref"

-----------------------------------------------------------------------------
(* Requests, results, frames.                                              *)

\* depth: the kernel.get calls on the Python stack when the request is sent
Req(k, r, f, n, a, ov) ==
    [kind |-> k, objref |-> r, fqn |-> f, name |-> n, args |-> a,
     overrides |-> ov, depth |-> 0]

NoReq == Req("none", NoRef, <<>>, "", <<>>, <<>>)

\* GetRequest(objref=obj.__jsii_ref__, property_=property), obj a _FakeReference
FieldGet(r, name, depth) == [Req("get", r, <<>>, name, <<>>, <<>>) EXCEPT !.depth = depth]

\* made: the instances the call has allocated so far
Op(n, i, r, k, p) ==
    [name |-> n, obj |-> i, ref |-> r, klass |-> k, prop |-> p, made |-> {}]

NoOp == Op("none", 0, NoRef, "", "")

Res(s, v, e) == [status |-> s, value |-> v, err |-> e]

NoResult == Res("none", None, "")

Ok(v) == Res("ok", v, "")

Err(e) == Res("err", None, e)

\* an instance: its class and its __jsii_ref__; via is history, the reference
\* that resolve was last given when it returned this instance
Obj(a, c, r, v) == [alive |-> a, cls |-> c, ref |-> r, via |-> v]

NoObj == Obj(FALSE, "", NoRef, NoRef)

\* a frame of _recursize_dereference over a mapping (kind "map") or of
\* resolve's loop over the fields of a data type (kind "data")
Frame(kd, r, key, todo, done) ==
    [kind |-> kd, ref |-> r, key |-> key, todo |-> todo, done |-> done]

\* the kernel.get calls on the Python stack
Depth(stk) == Cardinality({i \in 1..Len(stk) : stk[i].kind = "data"})

RECURSIVE Fields(_)
Fields(names) ==
    IF names = <<>> THEN <<>> ELSE <<Item(Head(names), None)>> \o Fields(Tail(names))

\* the identities not in use
FreeIds(os) == {i \in 1..MaxInst : ~os[i].alive}

MinOf(S) == CHOOSE i \in S : \A j \in S : i <= j

-----------------------------------------------------------------------------
(* The interpreter of one call between two Provider round trips.  A        *)
(* configuration is what the call is doing (mode), the value at hand, the  *)
(* frames below it and the heap.                                           *)

Config(m, v, e, stk, os, md, rq) ==
    [mode |-> m, val |-> v, err |-> e, stack |-> stk, objs |-> os,
     made |-> md, req |-> rq]

Ret(c, v) == [c EXCEPT !.mode = "ret", !.val = v]

\* the exception is caught and another one raised in its place
RaiseTranslated(c, e) == [c EXCEPT !.mode = "raise", !.err = "KernelError"]

\* raise e: no frame of the Kernel or of resolve catches it
Raise(c, e) == [c EXCEPT !.mode = "raise", !.err = e]

\* lines 38-41: the map already holds a live instance
ResolveKnown(c, r) ==
    [Ret(c, Proxy(refs[r])) EXCEPT !.objs[refs[r]].via = r]

\* klass.__new__(klass), then inst.<attribute> = ref
NewProxy(c, r, k, held) ==
    IF FreeIds(c.objs) = {} THEN [c EXCEPT !.mode = "overflow"]
    ELSE LET id == MinOf(FreeIds(c.objs))
         IN  [Ret(c, Proxy(id)) EXCEPT
                 !.objs = [@ EXCEPT ![id] = Obj(TRUE, k, held, r)],
                 !.made = @ \cup {id}]

\* lines 47-57, without line 58
ResolveObjectNoRef(c, r) ==
    LET klass == types[ClassFqn(r)]
    IN  NewProxy(c, r, IF classes[klass].abstract THEN classes[klass].proxy ELSE klass,
                 NoRef)

\* lines 47-58 without lines 52-53
ResolveObjectAbstract(c, r) == NewProxy(c, r, types[ClassFqn(r)], r)

\* lines 47-58: klass.__new__(klass), then inst.__jsii_ref__ = ref
ResolveObject(c, r) ==
    LET klass == types[ClassFqn(r)]
    IN  NewProxy(c, r, IF classes[klass].abstract THEN classes[klass].proxy ELSE klass,
                 r)

\* the first kernel.get of the loop of lines 67-70 over the annotations names
FirstField(c, r, names) ==
    IF names = <<>> THEN Ret(c, Mapping(<<>>))
    ELSE IF Depth(c.stack) >= MaxDepth THEN Raise(c, "RecursionError")
    ELSE [c EXCEPT
            !.mode = "block",
            !.stack = <<Frame("data", r, Head(names), Fields(Tail(names)), <<>>)>> \o @,
            !.req = FieldGet(r, Head(names), Depth(c.stack) + 1)]

\* lines 59-70 with the loop starting at the second annotation
ResolveDataSkipFirst(c, r) == FirstField(c, r, Tail(data_types[ClassFqn(r)]))

\* v is a value of the data type: a mapping of its annotations
Composite(v) == IsMapping(v) /\ v.items # <<>> /\ v.items[1].k = "x"

\* lines 59-70 with a cache: the value fetched for an earlier entry of the
\* mapping under construction is returned again
ResolveDataCached(c, r) ==
    LET hit == IF c.stack = <<>> THEN {}
               ELSE {n \in 1..Len(Head(c.stack).done) : Composite(Head(c.stack).done[n].v)}
    IN  IF hit = {} THEN FirstField(c, r, data_types[ClassFqn(r)])
        ELSE Ret(c, Head(c.stack).done[MinOf(hit)].v)

\* lines 59-70: inst = {}, then one kernel.get(_FakeReference(ref), name) per
\* annotation; the later ones follow in Continue
ResolveData(c, r) == FirstField(c, r, data_types[ClassFqn(r)])

\* lines 35-74 without the else branch of lines 71-72
ResolveRefNoUnknown(c, r) ==
    IF r \in DOMAIN refs THEN ResolveKnown(c, r)
    ELSE IF ClassFqn(r) \in DOMAIN types THEN ResolveObject(c, r)
    ELSE IF ClassFqn(r) \in DOMAIN data_types THEN ResolveData(c, r)
    ELSE Ret(c, Mapping(<<>>))

\* _ReferenceMap.resolve(kernel, ref)
ResolveRef(c, r) ==
    IF r \in DOMAIN refs THEN ResolveKnown(c, r)
    ELSE IF ClassFqn(r) \in DOMAIN types THEN ResolveObject(c, r)
    ELSE IF ClassFqn(r) \in DOMAIN data_types THEN ResolveData(c, r)
    ELSE Raise(c, "ValueError")

\* _recursize_dereference(kernel, d), up to its first nested call
Dereference(c) ==
    LET d == c.val
    IN  IF IsMapping(d)
        THEN IF d.items = <<>> THEN Ret(c, Mapping(<<>>))
             ELSE [c EXCEPT
                     !.val = Head(d.items).v,
                     !.stack = <<Frame("map", NoRef, Head(d.items).k,
                                       Tail(d.items), <<>>)>> \o @]
        ELSE IF IsObjRef(d) THEN ResolveRef(c, d.ref)
        ELSE Ret(c, d)

\* a nested call has returned c.val to the frame on top of the stack
Continue(c) ==
    LET f    == Head(c.stack)
        done == Append(f.done, Item(f.key, c.val))
    IN  IF f.todo = <<>>
        THEN [Ret(c, Mapping(done)) EXCEPT !.stack = Tail(@)]
        ELSE LET g == Frame(f.kind, f.ref, Head(f.todo).k, Tail(f.todo), done)
             IN  IF f.kind = "map"
                 THEN [c EXCEPT !.mode = "eval", !.val = Head(f.todo).v,
                                !.stack = <<g>> \o Tail(@)]
                 ELSE [c EXCEPT !.mode = "block",
                                !.stack = <<g>> \o Tail(@),
                                !.req = FieldGet(f.ref, g.key, Depth(c.stack))]

RECURSIVE Run(_)
\* run until the call returns, raises or blocks in the Provider
Run(c) ==
    IF c.mode = "eval" THEN Run(Dereference(c))
    ELSE IF c.mode = "ret" /\ c.stack # <<>> THEN Run(Continue(c))
    ELSE c

-----------------------------------------------------------------------------
(* The Provider.  It is outside the repository: it answers a create with a *)
(* reference to a new instance of the requested type, and a get or an      *)
(* invoke with a value over the references it knows, which are the ones it *)
(* issued and those of instances made on the remote side.  The fields of   *)
(* the data type are typed: x is a number, y is empty (a scalar), a nested *)
(* data value or a value of a type the local bindings do not know.         *)

IdToks == <<"1", "2", "3", "4", "5">>

RemoteBorn ==
    {MkRef(FooFqn, "9"), MkRef(AbsFqn, "9"), MkRef(PtFqn, "9"), MkRef(ZedFqn, "9")}

Issued == {MkRef(FooFqn, IdToks[n]) : n \in 1..(nextRemote - 1)}

KnownRefs == RemoteBorn \cup Issued

Leaves == {Scalar(0)} \cup {ObjRef(r) : r \in KnownRefs}

\* the markers nested in a mapping or a list: one object type, one data type,
\* one unknown type
Nested == {ObjRef(MkRef(f, "9")) : f \in {AbsFqn, PtFqn, ZedFqn}}

\* a mapping whose first value resolves to a proxy and whose second value is
\* a data value, fetched field by field
ProxyThenData ==
    Mapping(<<Item("a", ObjRef(MkRef(AbsFqn, "9"))), Item("b", ObjRef(MkRef(PtFqn, "9")))>>)

\* a mapping that holds the same reference of a data type twice
TwoData ==
    Mapping(<<Item("a", ObjRef(MkRef(PtFqn, "9"))), Item("b", ObjRef(MkRef(PtFqn, "9")))>>)

\* the answers to get, sget, invoke and sinvoke
ProviderValues ==
    Leaves
    \cup {ProxyThenData, TwoData}
    \cup {Mapping(<<Item("a", l)>>) : l \in Nested}
    \cup {List(<<Item("", l)>>) : l \in Nested}
    \cup {Mapping(<<Item("a", List(<<Item("", l)>>))>>) : l \in Nested}
    \cup {Mapping(<<Item("a", ObjRef(r)), Item("b", ObjRef(r))>>) :
            r \in {k \in KnownRefs : ClassFqn(k) \in DOMAIN types}}

\* the answers to the get of a field of a data value
FieldValues(name) ==
    IF name = "x" THEN {Scalar(0)}
    ELSE {Scalar(0), ObjRef(MkRef(PtFqn, "8")), ObjRef(MkRef(ZedFqn, "9"))}

AllFieldValues == FieldValues("x") \cup FieldValues("y")

ValueKinds == {"get", "sget", "invoke", "sinvoke"}

NoneKinds == {"load", "delete", "set", "sset"}

-----------------------------------------------------------------------------
(* Inputs of the application.                                              *)

\* classes the application instantiates itself
LocalClasses == {"Sub"}

\* the JSClass a create names
JSClasses == {"Foo"}

\* args=None
NoArgs == <<-1>>

ArgsInputs == {NoArgs, <<1>>}

\* if args is None: args = []
DefaultArgs(args) == IF args = NoArgs THEN <<>> ELSE args

Live == {i \in 1..MaxInst : objs[i].alive}

Bound == {i \in Live : objs[i].ref # NoRef}

EmptyMap == [r \in {} |-> 0]

-----------------------------------------------------------------------------
(* The state after the modules have been imported.                         *)

InitKernel ==
    /\ objs = [i \in 1..MaxInst |-> NoObj]
    /\ refs = EmptyMap
    /\ pc = "idle"
    /\ op = NoOp
    /\ stack = <<>>
    /\ pending = NoReq
    /\ sent = <<>>
    /\ reply = None
    /\ result = NoResult
    /\ nextRemote = 1
    /\ gone = {}

Init ==
    /\ classes = BaseClasses
    /\ InitKernel

-----------------------------------------------------------------------------
(* How a step of call o ends: blocked in the next round trip, returned, or *)
(* raised.  An exception unwinds every frame (the code catches only the    *)
(* KeyError of line 40), and the instances the call had made die with it.  *)

\* the heap after an exception, had the instances of the failed call stayed
Leaked(c) == c.objs

\* the heap after an exception: the instances the call had made are unreachable
Unwound(c) == [i \in 1..MaxInst |-> IF i \in c.made THEN NoObj ELSE c.objs[i]]

Finish(c, o) ==
    /\ c.mode \in {"block", "ret", "raise"}
    /\ IF c.mode = "block"
       THEN /\ pc' = "wait"
            /\ op' = [o EXCEPT !.made = c.made]
            /\ pending' = c.req
            /\ stack' = c.stack
            /\ result' = NoResult
            /\ objs' = c.objs
       ELSE IF c.mode = "ret"
       THEN /\ pc' = "done"
            /\ op' = [o EXCEPT !.made = c.made]
            /\ pending' = NoReq
            /\ stack' = <<>>
            /\ result' = Ok(c.val)
            /\ objs' = c.objs
       ELSE /\ pc' = "done"
            /\ op' = [o EXCEPT !.made = {}]
            /\ pending' = NoReq
            /\ stack' = <<>>
            /\ result' = Err(c.err)
            /\ objs' = Unwound(c)

\* a call sends its request and blocks
Send(o, rq) ==
    /\ pc = "idle"
    /\ pc' = "wait"
    /\ op' = o
    /\ pending' = rq
    /\ sent' = <<rq>>
    /\ stack' = <<>>
    /\ reply' = None
    /\ result' = NoResult
    /\ gone' = {}
    /\ UNCHANGED <<classes, objs, refs, nextRemote>>

-----------------------------------------------------------------------------
(* The application between two calls.                                      *)

\* the application constructs an instance of one of its classes
NewObj(c) ==
    /\ pc = "idle"
    /\ FreeIds(objs) # {}
    /\ objs' = [objs EXCEPT ![MinOf(FreeIds(objs))] = Obj(TRUE, c, NoRef, NoRef)]
    /\ UNCHANGED <<classes, refs, pc, op, stack, pending, sent, reply, result,
                   nextRemote, gone>>

\* as Collect, with a finalizer that asks the Provider to delete the remote
\* instance
CollectDeletes(i) ==
    /\ pc = "idle"
    /\ i \in Live
    /\ objs' = [objs EXCEPT ![i] = NoObj]
    /\ LET mine == {r \in DOMAIN refs : refs[r] = i}
       IN  /\ refs' = [r \in DOMAIN refs \ mine |-> refs[r]]
           /\ gone' = gone \cup mine
    /\ sent' = IF objs[i].ref = NoRef THEN sent
               ELSE Append(sent, Req("delete", objs[i].ref, <<>>, "", <<>>, <<>>))
    /\ UNCHANGED <<classes, pc, op, stack, pending, reply, result, nextRemote>>

\* the last strong reference to instance i is dropped: the instance dies and
\* the WeakValueDictionary drops the entries whose value it was
Collect(i) ==
    /\ pc = "idle"
    /\ i \in Live
    /\ objs' = [objs EXCEPT ![i] = NoObj]
    /\ LET mine == {r \in DOMAIN refs : refs[r] = i}
       IN  /\ refs' = [r \in DOMAIN refs \ mine |-> refs[r]]
           /\ gone' = gone \cup mine
    /\ UNCHANGED <<classes, pc, op, stack, pending, sent, reply, result, nextRemote>>

\* the caller takes the result
Return ==
    /\ pc = "done"
    /\ pc' = "idle"
    /\ op' = NoOp
    /\ result' = NoResult
    /\ sent' = <<>>
    /\ reply' = None
    /\ gone' = {}
    /\ UNCHANGED <<classes, objs, refs, stack, pending, nextRemote>>

-----------------------------------------------------------------------------
(* _ReferenceMap.                                                          *)

\* register(inst): self._refs[inst.__jsii_ref__.ref] = inst
Register(i) ==
    /\ pc = "idle"
    /\ i \in Bound
    /\ refs' = [r \in DOMAIN refs \cup {objs[i].ref} |->
                   IF r = objs[i].ref THEN i ELSE refs[r]]
    /\ gone' = gone \ {objs[i].ref}
    /\ UNCHANGED <<classes, objs, pc, op, stack, pending, sent, reply, result,
                   nextRemote>>

\* resolve(kernel, ref), called by the application
Resolve(r) ==
    /\ pc = "idle"
    /\ r \in KnownRefs
    /\ reply' = None
    /\ Finish(Run(Config("eval", ObjRef(r), "", <<>>, objs, {}, NoReq)),
              Op("resolve", 0, r, "", ""))
    /\ sent' = IF pending' = NoReq THEN <<>> ELSE <<pending'>>
    /\ UNCHANGED <<classes, refs, nextRemote, gone>>

-----------------------------------------------------------------------------
(* Kernel.                                                                 *)

\* load(name, version, tarball)
Load ==
    Send(Op("load", 0, NoRef, "", "lib"), Req("load", NoRef, <<>>, "lib", <<>>, <<>>))

\* create(klass, obj, args), lines 109-116 up to the round trip
Create(klass, i, args) ==
    /\ pc = "idle"
    /\ i \in Live
    /\ klass \in JSClasses
    /\ InMro(klass, objs[i].cls)
    /\ LET ov == GetOverrides(klass, objs[i].cls)
           rq == Req("create", NoRef, JsiiType(klass), "", DefaultArgs(args), ov.list)
       IN  IF ov.err = ""
           THEN Send(Op("create", i, NoRef, klass, ""), rq)
           ELSE /\ pc' = "done"
                /\ op' = Op("create", i, NoRef, klass, "")
                /\ result' = Err(ov.err)
                /\ sent' = <<>>
                /\ reply' = None
                /\ gone' = {}
                /\ UNCHANGED <<classes, objs, refs, stack, pending, nextRemote>>

\* as Delete, with the local bookkeeping a delete might be expected to do:
\* the entry of the reference leaves the map
DeleteForgets(r) ==
    /\ r \in Issued \cup {objs[i].ref : i \in Bound}
    /\ pc = "idle"
    /\ pc' = "wait"
    /\ op' = Op("delete", 0, r, "", "")
    /\ pending' = Req("delete", r, <<>>, "", <<>>, <<>>)
    /\ sent' = <<pending'>>
    /\ stack' = <<>>
    /\ reply' = None
    /\ result' = NoResult
    /\ gone' = {}
    /\ refs' = [x \in DOMAIN refs \ {r} |-> refs[x]]
    /\ UNCHANGED <<classes, objs, nextRemote>>

\* delete(ref), ref an ObjRef that create returned or that an instance holds
Delete(r) ==
    /\ r \in Issued \cup {objs[i].ref : i \in Bound}
    /\ Send(Op("delete", 0, r, "", ""), Req("delete", r, <<>>, "", <<>>, <<>>))

\* get(obj, property)
Get(i, prop) ==
    /\ i \in Bound
    /\ Send(Op("get", i, objs[i].ref, "", prop),
            Req("get", objs[i].ref, <<>>, prop, <<>>, <<>>))

\* set(obj, property, value)
Set(i, prop) ==
    /\ i \in Bound
    /\ Send(Op("set", i, objs[i].ref, "", prop),
            Req("set", objs[i].ref, <<>>, prop, <<1>>, <<>>))

\* sget(klass, property)
SGet(klass, prop) ==
    /\ klass \in JSClasses
    /\ Send(Op("sget", 0, NoRef, klass, prop),
            Req("sget", NoRef, JsiiType(klass), prop, <<>>, <<>>))

\* sset(klass, property, value)
SSet(klass, prop) ==
    /\ klass \in JSClasses
    /\ Send(Op("sset", 0, NoRef, klass, prop),
            Req("sset", NoRef, JsiiType(klass), prop, <<1>>, <<>>))

\* invoke(obj, method, args)
Invoke(i, method, args) ==
    /\ i \in Bound
    /\ Send(Op("invoke", i, objs[i].ref, "", method),
            Req("invoke", objs[i].ref, <<>>, method, DefaultArgs(args), <<>>))

\* sinvoke(klass, method, args)
SInvoke(klass, method, args) ==
    /\ klass \in JSClasses
    /\ Send(Op("sinvoke", 0, NoRef, klass, method),
            Req("sinvoke", NoRef, JsiiType(klass), method, DefaultArgs(args), <<>>))

\* stats()
Stats ==
    Send(Op("stats", 0, NoRef, "", ""), Req("stats", NoRef, <<>>, "", <<>>, <<>>))

-----------------------------------------------------------------------------
(* The Provider answers.                                                   *)

\* create, lines 114-118: obj.__jsii_ref__ = <response>; return obj.__jsii_ref__
ProviderCreate ==
    /\ pc = "wait"
    /\ pending.kind = "create"
    /\ nextRemote <= MaxRemote
    /\ LET r == MkRef(pending.fqn, IdToks[nextRemote])
       IN  /\ reply' = ObjRef(r)
           /\ objs' = [objs EXCEPT ![op.obj].ref = r]
           /\ result' = Ok(ObjRef(r))
    /\ nextRemote' = nextRemote + 1
    /\ pc' = "done"
    /\ pending' = NoReq
    /\ UNCHANGED <<classes, refs, op, stack, sent, gone>>

\* as ProviderValue, with a resolve that does not wait for the answer to the
\* get of one field before it sends the get of the next
ProviderValuePipelined(v) ==
    /\ pc = "wait"
    /\ pending.kind \in ValueKinds
    /\ v \in (IF pending.depth = 0 THEN ProviderValues ELSE FieldValues(pending.name))
    /\ reply' = v
    /\ Finish(Run(Config("eval", v, "", stack, objs, op.made, NoReq)), op)
    /\ sent' = IF pending' = NoReq THEN sent
               ELSE IF pending'.name = "x"
                    THEN sent \o <<pending', [pending' EXCEPT !.name = "y"]>>
                    ELSE sent
    /\ UNCHANGED <<classes, refs, nextRemote, gone>>

\* get, sget, invoke, sinvoke and the nested gets: the response is dereferenced
ProviderValue(v) ==
    /\ pc = "wait"
    /\ pending.kind \in ValueKinds
    /\ v \in (IF pending.depth = 0 THEN ProviderValues ELSE FieldValues(pending.name))
    /\ reply' = v
    /\ Finish(Run(Config("eval", v, "", stack, objs, op.made, NoReq)), op)
    /\ sent' = IF pending' = NoReq THEN sent ELSE Append(sent, pending')
    /\ UNCHANGED <<classes, refs, nextRemote, gone>>

\* load, delete, set, sset return nothing
ProviderNone ==
    /\ pc = "wait"
    /\ pending.kind \in NoneKinds
    /\ reply' = None
    /\ result' = Ok(None)
    /\ pc' = "done"
    /\ pending' = NoReq
    /\ UNCHANGED <<classes, objs, refs, op, stack, sent, nextRemote, gone>>

\* stats, lines 168-170
ProviderStats(n) ==
    /\ pc = "wait"
    /\ pending.kind = "stats"
    /\ reply' = Scalar(n)
    /\ result' = Ok(Statistics(n))
    /\ pc' = "done"
    /\ pending' = NoReq
    /\ UNCHANGED <<classes, objs, refs, op, stack, sent, nextRemote, gone>>

\* the round trip fails: the Provider's error propagates through every frame
ProviderFail ==
    /\ pc = "wait"
    /\ reply' = None
    /\ Finish(Raise(Config("raise", None, "", stack, objs, op.made, NoReq),
                    "ProviderError"),
              op)
    /\ UNCHANGED <<classes, refs, sent, nextRemote, gone>>

-----------------------------------------------------------------------------
Props == {"bar"}

Methods == {"run"}

Next ==
    \/ \E c \in LocalClasses : NewObj(c)
    \/ \E i \in 1..MaxInst : Collect(i)
    \/ Return
    \/ \E i \in 1..MaxInst : Register(i)
    \/ \E r \in KnownRefs : Resolve(r)
    \/ Load
    \/ \E k \in JSClasses, i \in 1..MaxInst, a \in ArgsInputs : Create(k, i, a)
    \/ \E r \in KnownRefs : Delete(r)
    \/ \E i \in 1..MaxInst, p \in Props : Get(i, p)
    \/ \E i \in 1..MaxInst, p \in Props : Set(i, p)
    \/ \E k \in JSClasses, p \in Props : SGet(k, p)
    \/ \E k \in JSClasses, p \in Props : SSet(k, p)
    \/ \E i \in 1..MaxInst, m \in Methods : Invoke(i, m, NoArgs)
    \/ \E k \in JSClasses, m \in Methods : SInvoke(k, m, <<1>>)
    \/ Stats
    \/ ProviderCreate
    \/ \E v \in ProviderValues \cup AllFieldValues : ProviderValue(v)
    \/ ProviderNone
    \/ \E n \in 0..1 : ProviderStats(n)
    \/ ProviderFail

Spec == Init /\ [][Next]_vars

\* the reference map alone: the calls of _reference_map.py on the references
\* of instances made on the remote side, and the round trips they cause
NextMap ==
    \/ \E i \in 1..MaxInst : Collect(i)
    \/ Return
    \/ \E i \in 1..MaxInst : Register(i)
    \/ \E r \in KnownRefs : Resolve(r)
    \/ \E v \in AllFieldValues : ProviderValue(v)
    \/ ProviderFail

SpecMap == Init /\ [][NextMap]_vars

-----------------------------------------------------------------------------
(* Override enumeration over the classes an application may write: Sub and *)
(* Mid define up to MaxMembers functions and properties, named after the   *)
(* members of Foo (m and p remote-bound, h, q and a not) or after none of  *)
(* them (z).                                                               *)

MemberNames == <<"m", "p", "h", "q", "a", "z">>

LocalKinds == {"none", "function", "property"}

RECURSIVE DictOf(_, _)
\* the class body that defines name n as kinds[n], in the order of MemberNames
DictOf(kinds, i) ==
    IF i > Len(MemberNames) THEN <<>>
    ELSE (IF kinds[MemberNames[i]] = "none" THEN <<>>
          ELSE <<Member(MemberNames[i], kinds[MemberNames[i]], "")>>)
         \o DictOf(kinds, i + 1)

Bodies == [{MemberNames[i] : i \in 1..Len(MemberNames)} -> LocalKinds]

Size(kinds) == Cardinality({n \in DOMAIN kinds : kinds[n] # "none"})

LocalTables ==
    {[BaseClasses EXCEPT !["Sub"].dict = DictOf(sub, 1), !["Mid"].dict = DictOf(mid, 1)] :
        <<sub, mid>> \in {pr \in Bodies \X Bodies : Size(pr[1]) + Size(pr[2]) <= MaxMembers}}

InitOv ==
    /\ classes \in LocalTables
    /\ InitKernel

NextOv ==
    \/ \E c \in LocalClasses : NewObj(c)
    \/ Return
    \/ \E k \in JSClasses, i \in 1..MaxInst, a \in ArgsInputs : Create(k, i, a)
    \/ ProviderCreate
    \/ ProviderFail

SpecOv == InitOv /\ [][NextOv]_vars

\* the classes of the chain Sub -> Mid -> Foo: create is called for instances
\* of the local classes and of the declared type itself
ChainClasses == {"Sub", "Mid", "Foo"}

\* bodies of Sub and Mid over the remote-bound names of Foo
ChainBodies ==
    {b \in Bodies : \A n \in {"h", "q", "a", "z"} : b[n] = "none"}

ChainTables ==
    {[BaseClasses EXCEPT !["Sub"].dict = DictOf(sub, 1), !["Mid"].dict = DictOf(mid, 1)] :
        <<sub, mid>> \in {pr \in ChainBodies \X ChainBodies :
                              Size(pr[1]) + Size(pr[2]) <= MaxMembers}}

InitChain ==
    /\ classes \in ChainTables
    /\ InitKernel

NextChain ==
    \/ \E c \in ChainClasses : NewObj(c)
    \/ Return
    \/ \E k \in JSClasses, i \in 1..MaxInst : Create(k, i, NoArgs)
    \/ ProviderCreate
    \/ ProviderFail

SpecChain == InitChain /\ [][NextChain]_vars

-----------------------------------------------------------------------------
(* Data values: the reference map, and a static get that the Provider      *)
(* answers with a mapping that holds one data-type reference twice.        *)

NextData ==
    \/ \E i \in 1..MaxInst : Collect(i)
    \/ Return
    \/ \E i \in 1..MaxInst : Register(i)
    \/ \E r \in KnownRefs : Resolve(r)
    \/ \E k \in JSClasses, p \in Props : SGet(k, p)
    \/ \E v \in {TwoData} \cup AllFieldValues : ProviderValue(v)
    \/ ProviderFail

SpecData == Init /\ [][NextData]_vars

-----------------------------------------------------------------------------
(* Deletion: proxies of remote-born instances are resolved and registered, *)
(* their references deleted, and the proxies used afterwards.              *)

DeleteValues == {Scalar(0), ObjRef(MkRef(FooFqn, "9"))}

NextDelete ==
    \/ \E i \in 1..MaxInst : Collect(i)
    \/ Return
    \/ \E i \in 1..MaxInst : Register(i)
    \/ \E r \in RemoteBorn : Resolve(r)
    \/ \E r \in RemoteBorn : Delete(r)
    \/ \E i \in 1..MaxInst, p \in Props : Get(i, p)
    \/ \E i \in 1..MaxInst, m \in Methods : Invoke(i, m, NoArgs)
    \/ \E v \in DeleteValues \cup AllFieldValues : ProviderValue(v)
    \/ ProviderNone
    \/ ProviderFail

SpecDelete == Init /\ [][NextDelete]_vars

-----------------------------------------------------------------------------
(* The Kernel: its ten operations on instances the application made or     *)
(* that resolution made, and resolve; the application registers nothing.   *)
(* The Provider answers with a scalar, a marker, or a mapping that holds   *)
(* markers.                                                                *)

KernelValues ==
    {Scalar(0), ProxyThenData} \cup Nested \cup {Mapping(<<Item("a", l)>>) : l \in Nested}

NextKernel ==
    \/ \E c \in LocalClasses : NewObj(c)
    \/ \E i \in 1..MaxInst : Collect(i)
    \/ Return
    \/ \E r \in RemoteBorn : Resolve(r)
    \/ Load
    \/ \E k \in JSClasses, i \in 1..MaxInst, a \in ArgsInputs : Create(k, i, a)
    \/ \E r \in KnownRefs : Delete(r)
    \/ \E i \in 1..MaxInst, p \in Props : Get(i, p)
    \/ \E i \in 1..MaxInst, p \in Props : Set(i, p)
    \/ \E k \in JSClasses, p \in Props : SGet(k, p)
    \/ \E k \in JSClasses, p \in Props : SSet(k, p)
    \/ \E i \in 1..MaxInst, m \in Methods : Invoke(i, m, NoArgs)
    \/ \E k \in JSClasses, m \in Methods : SInvoke(k, m, <<1>>)
    \/ Stats
    \/ ProviderCreate
    \/ \E v \in KernelValues \cup AllFieldValues : ProviderValue(v)
    \/ ProviderNone
    \/ \E n \in 0..1 : ProviderStats(n)
    \/ ProviderFail

SpecKernel == Init /\ [][NextKernel]_vars

-----------------------------------------------------------------------------
(* Properties.                                                             *)

\* the call that has just ended or is blocked
Called(n) == pc \in {"wait", "done"} /\ op.name = n

Succeeded(n) == pc = "done" /\ op.name = n /\ result.status = "ok"

\* a step that is the application's call of resolve
ResolveStep == pc = "idle" /\ pc' # "idle" /\ op'.name = "resolve"

ObjectTypeRef(r) == ClassFqn(r) \in DOMAIN types

DataTypeRef(r) == ClassFqn(r) \in DOMAIN data_types

UnknownTypeRef(r) == ~ObjectTypeRef(r) /\ ~DataTypeRef(r)

\* C1: identity preservation.  Two live instances that resolve returned for
\* the same reference of a registered object type are one and the same
\* instance, also when the first resolve created the instance.
IdentityPreserved ==
    \A i, j \in Live :
        (objs[i].via # NoRef /\ objs[i].via = objs[j].via /\ ObjectTypeRef(objs[i].via))
            => i = j

\* C2: after a successful Kernel.create the instance holds the reference the
\* Provider returned, create returns that reference, and the reference map
\* maps it to the instance.
CreateBindsAndRegisters ==
    Succeeded("create") =>
        /\ objs[op.obj].ref = reply.ref
        /\ result.value = reply
        /\ reply.ref \in DOMAIN refs
        /\ refs[reply.ref] = op.obj

\* C3: in every reachable state no two distinct live instances hold the same
\* Remote Reference.
OneLiveProxyPerRef ==
    \A i, j \in Live :
        (objs[i].ref # NoRef /\ objs[i].ref = objs[j].ref) => i = j

RECURSIVE HasMarker(_)
\* v holds an ObjRef marker, at any depth of its mappings and lists
HasMarker(v) ==
    \/ v.tag = "ref"
    \/ \E n \in 1..Len(v.items) : HasMarker(v.items[n].v)

\* C4: the value that get, sget, invoke or sinvoke returns holds no
\* Remote-Reference marker anywhere, inside lists included.
NoMarkerRemains ==
    (pc = "done" /\ op.name \in ValueKinds /\ result.status = "ok")
        => ~HasMarker(result.value)

\* C5: resolving a reference that is not in the map and whose type is in
\* neither registry raises the unknown type error, sends no request and
\* leaves the map as it was; the same when the reference is the answer to a
\* nested get.
UnknownTypeFails ==
    [][/\ (ResolveStep /\ op'.ref \notin DOMAIN refs /\ UnknownTypeRef(op'.ref))
            => /\ pc' = "done"
               /\ result' = Err("ValueError")
               /\ sent' = <<>>
               /\ pending' = NoReq
               /\ refs' = refs
       /\ (/\ pc = "wait"
           /\ pending.kind \in ValueKinds
           /\ IsObjRef(reply')
           /\ reply'.ref \notin DOMAIN refs
           /\ UnknownTypeRef(reply'.ref))
            => /\ pc' = "done"
               /\ result' = Err("ValueError")
               /\ sent' = sent
               /\ pending' = NoReq
               /\ refs' = refs]_vars

\* resolve was called on a reference of an unknown type and raised
UnknownTypeSeen ==
    /\ pc = "done"
    /\ op.name = "resolve"
    /\ op.ref \notin DOMAIN refs
    /\ UnknownTypeRef(op.ref)
    /\ result = Err("ValueError")
    /\ sent = <<>>

RECURSIVE LocalsOfMro(_, _)
LocalsOfMro(klass, mro) ==
    IF mro = <<>> \/ Head(mro) = klass THEN <<>>
    ELSE classes[Head(mro)].dict \o LocalsOfMro(klass, Tail(mro))

\* the members that the classes between the instance's class c and the
\* declared type klass define
LocalMembers(klass, c) == LocalsOfMro(klass, Mro(c))

\* the declared type has a member of that name that carries a remote name
RemoteBound(klass, n) == GetAttr(klass, n).jsii # ""

\* a local member that redefines a remote-bound member, method by function and
\* property by property
Redefines(klass, item) ==
    RemoteBound(klass, item.name) /\ item.kind = GetAttr(klass, item.name).kind

\* a local member whose name is that of a member of the declared type that is
\* not remote-bound
Collides(klass, item) ==
    /\ item.kind \in {"function", "property"}
    /\ GetAttr(klass, item.name) # Nothing
    /\ ~RemoteBound(klass, item.name)

RecordOf(klass, item) ==
    IF item.kind = "function"
    THEN Override(GetAttr(klass, item.name).jsii, "", item.name)
    ELSE Override("", GetAttr(klass, item.name).jsii, item.name)

CreateRequestSent == sent # <<>> /\ sent[1].kind = "create"

\* C6: when the local classes redefine a remote-bound method and a
\* remote-bound property of the declared type, and their other members are not
\* remote-bound on the declared type or do not exist on it, the create request
\* is sent with the records of the redefined members and no other record.
OverridesComplete ==
    Called("create") =>
        LET L == LocalMembers(op.klass, objs[op.obj].cls)
        IN  (/\ \E n \in 1..Len(L) :
                    L[n].kind = "function" /\ Redefines(op.klass, L[n])
             /\ \E n \in 1..Len(L) :
                    L[n].kind = "property" /\ Redefines(op.klass, L[n])
             /\ \A n \in 1..Len(L) :
                    RemoteBound(op.klass, L[n].name) => Redefines(op.klass, L[n]))
            => /\ CreateRequestSent
               /\ {sent[1].overrides[k] : k \in 1..Len(sent[1].overrides)}
                    = {RecordOf(op.klass, L[n]) :
                            n \in {k \in 1..Len(L) : Redefines(op.klass, L[k])}}

\* C7: when a local function or property has the name of a member of the
\* declared type that is not remote-bound (a function, a property or a plain
\* attribute), the override computation raises nothing, the create request is
\* sent, and it holds no record for that member.
CollisionsIgnored ==
    Called("create") =>
        LET L == LocalMembers(op.klass, objs[op.obj].cls)
        IN  (\A n \in 1..Len(L) :
                RemoteBound(op.klass, L[n].name) => Redefines(op.klass, L[n]))
            => \A n \in 1..Len(L) :
                    Collides(op.klass, L[n])
                        => /\ CreateRequestSent
                           /\ \A k \in 1..Len(sent[1].overrides) :
                                  sent[1].overrides[k].cookie # L[n].name

\* resolve has returned the value of an unseen reference of a data type
DataValueResolved ==
    /\ Succeeded("resolve")
    /\ op.ref \notin DOMAIN refs
    /\ DataTypeRef(op.ref)

RECURSIVE Keys(_)
Keys(items) == IF items = <<>> THEN <<>> ELSE <<Head(items).k>> \o Keys(Tail(items))

RECURSIVE AtDepth(_, _)
\* the requests of rqs that were sent with d kernel.get calls on the stack
AtDepth(rqs, d) ==
    IF rqs = <<>> THEN <<>>
    ELSE (IF Head(rqs).depth = d THEN <<Head(rqs)>> ELSE <<>>) \o AtDepth(Tail(rqs), d)

\* the gets of the declared fields of r, one each, in the order of declaration
FieldGets(rqs, r) ==
    /\ Len(rqs) = Len(data_types[ClassFqn(r)])
    /\ \A n \in 1..Len(rqs) :
        /\ rqs[n].kind = "get"
        /\ rqs[n].objref = r
        /\ rqs[n].name = data_types[ClassFqn(r)][n]

\* C8 as stated: resolving an unseen reference of a data type returns a
\* composite whose keys are the declared fields, and the requests sent during
\* the resolution are exactly one get per declared field, each addressed to the
\* container reference.
OneGetPerField ==
    DataValueResolved =>
        /\ IsMapping(result.value)
        /\ Keys(result.value.items) = data_types[ClassFqn(op.ref)]
        /\ FieldGets(sent, op.ref)

\* C8 amended: the composite has the declared fields as keys; the requests of
\* the resolution itself are one get per declared field addressed to the
\* container; every other request sent meanwhile is a get of a nested
\* resolution, addressed to the data-type reference that a field held.
OneGetPerFieldOfEachValue ==
    DataValueResolved =>
        /\ IsMapping(result.value)
        /\ Keys(result.value.items) = data_types[ClassFqn(op.ref)]
        /\ FieldGets(AtDepth(sent, 1), op.ref)
        /\ \A n \in 1..Len(sent) :
            sent[n].depth > 1 =>
                /\ sent[n].kind = "get"
                /\ DataTypeRef(sent[n].objref)
                /\ sent[n].objref # op.ref

\* a data value whose field held a data value has been resolved
NestedDataValueSeen ==
    /\ DataValueResolved
    /\ \E n \in 1..Len(sent) : sent[n].depth > 1

\* C9: once a live instance holds a reference, no step changes the reference
\* it holds.
RefAssignedOnce ==
    [][\A i \in 1..MaxInst :
          (objs[i].alive /\ objs[i].ref # NoRef /\ objs'[i].alive)
              => objs'[i].ref = objs[i].ref]_vars

\* C10: the map never holds an instance that is not alive, and the entry of a
\* collected proxy is gone; when r has no entry in the map, as after the
\* collection of the proxy registered for it, resolving r returns without
\* error a proxy that did not exist before, that is an instance of the
\* registered type and that holds r.
RecreatedAfterCollection ==
    [][/\ \A r \in DOMAIN refs' : objs'[refs'[r]].alive
       /\ \A r \in gone' : r \notin DOMAIN refs'
       /\ (ResolveStep /\ op'.ref \notin DOMAIN refs /\ ObjectTypeRef(op'.ref))
            => /\ pc' = "done"
               /\ result'.status = "ok"
               /\ result'.value.tag = "proxy"
               /\ ~objs[result'.value.n].alive
               /\ objs'[result'.value.n].alive
               /\ objs'[result'.value.n].ref = op'.ref
               /\ InMro(types[ClassFqn(op'.ref)], objs'[result'.value.n].cls)]_vars

\* a reference whose registered proxy was collected has been resolved again
RecreatedSeen ==
    /\ Succeeded("resolve")
    /\ op.ref \in gone
    /\ result.value.tag = "proxy"

\* a step of a call: it starts the call or takes an answer of the Provider
CallStep == pc # "done" /\ pc' # "idle"

\* the instances the call in progress has allocated before this step
MadeBefore == IF pc = "idle" THEN {} ELSE op.made

\* instance i is as it was: alive or not, its class, the reference it holds
Same(i) ==
    /\ objs'[i].alive = objs[i].alive
    /\ objs'[i].cls = objs[i].cls
    /\ objs'[i].ref = objs[i].ref

\* C11: a Kernel operation that fails leaves the local state as it was before
\* the call.  No step of a call changes the Reference Map; until the call ends
\* it changes no instance that existed before it and allocates only instances
\* that did not exist; and when it ends with an error, whether of the round
\* trip, of an unknown type or of a field get, the instances that existed
\* hold the references they held and the instances it allocated are gone.
FailureLeavesStateAsBefore ==
    [][CallStep =>
        /\ refs' = refs
        /\ pc' = "wait" =>
            /\ MadeBefore \subseteq op'.made
            /\ \A i \in op'.made \ MadeBefore : ~objs[i].alive
            /\ \A i \in (1..MaxInst) \ op'.made : Same(i)
        /\ (pc' = "done" /\ result'.status = "err") =>
            \A i \in 1..MaxInst :
                IF i \in MadeBefore THEN ~objs'[i].alive ELSE Same(i)]_vars

\* a value-returning call has failed part-way through the dereferencing of
\* its result, while an instance held a reference
FailedPartWay ==
    /\ pc = "done"
    /\ op.name \in ValueKinds
    /\ result.status = "err"
    /\ Len(sent) > 1
    /\ Bound # {}

\* C12: when the round trip of a Kernel operation fails, the operation ends
\* with the Provider's error, whatever frames were waiting for the answer; the
\* failed request is the last one sent, it was sent once, and no request
\* follows it.
ProviderErrorPropagates ==
    [][ProviderFail =>
        /\ pc' = "done"
        /\ op'.name = op.name
        /\ result' = Err("ProviderError")
        /\ sent[Len(sent)] = pending
        /\ Cardinality({n \in 1..Len(sent) : sent[n] = pending}) = 1
        /\ sent' = sent
        /\ pending' = NoReq]_vars

\* an operation has failed with the Provider's error in a nested round trip
ProviderErrorSeen ==
    /\ pc = "done"
    /\ op.name \in ValueKinds
    /\ result = Err("ProviderError")
    /\ Len(sent) > 1

\* C13: resolution never constructs remotely.  A create request is sent only
\* by Kernel.create, as the first and only request of the call: no resolve and
\* no dereferencing of a result sends one, for object, abstract and data types
\* alike; and no instance of an abstract type exists, resolution makes an
\* instance of its proxy class.
NoRemoteConstruction ==
    /\ \A n \in 1..Len(sent) :
          sent[n].kind = "create" => (op.name = "create" /\ Len(sent) = 1)
    /\ pending.kind = "create" => op.name = "create"
    /\ \A i \in Live : ~classes[objs[i].cls].abstract
    /\ \A i \in op.made :
          /\ objs[i].ref # NoRef
          /\ ObjectTypeRef(objs[i].ref)
          /\ InMro(types[ClassFqn(objs[i].ref)], objs[i].cls)

\* the dereferencing of a result has made a proxy for a reference of an
\* abstract type, and fetched a data value
AbstractResolved ==
    /\ pc = "done"
    /\ op.name \in ValueKinds
    /\ result.status = "ok"
    /\ \E i \in op.made : objs[i].cls = "AbsProxy" /\ ClassFqn(objs[i].ref) = AbsFqn
    /\ Len(sent) > 1

\* C14: the collection of a local instance sends nothing to the Provider; a
\* delete request is sent only by Kernel.delete, for the reference it was
\* given, and each call of Kernel.delete sends exactly one: there are as many
\* delete requests as calls of Kernel.delete.
DeleteOnlyOnRequest ==
    [][/\ (pc = "idle" /\ \E i \in 1..MaxInst : objs[i].alive /\ ~objs'[i].alive)
            => /\ pc' = "idle"
               /\ sent' = sent
               /\ pending' = NoReq
       /\ \A n \in 1..Len(sent') :
            sent'[n].kind = "delete" => op'.name = "delete"
       /\ op'.name = "delete"
            => sent' = <<Req("delete", op'.ref, <<>>, "", <<>>, <<>>)>>]_vars

\* Kernel.delete has returned for a reference that create had returned, after
\* every local instance was collected
DeletedAfterCollection ==
    /\ Succeeded("delete")
    /\ op.ref \in Issued
    /\ Live = {}
    /\ Len(sent) = 1

\* the data values at the top of v: v itself, or the values of its entries
Composites(v) ==
    IF Composite(v) THEN 1
    ELSE IF IsMapping(v)
         THEN Cardinality({n \in 1..Len(v.items) : Composite(v.items[n].v)})
         ELSE 0

\* C15: no key of the Reference Map is a reference of a data type, and data
\* values are not cached: a call that returns n data values, of one and the
\* same reference too, has sent n times the gets of the declared fields.
DataNeverCached ==
    /\ \A r \in DOMAIN refs : ~DataTypeRef(r)
    /\ (pc = "done" /\ result.status = "ok" /\ op.name \in ValueKinds \cup {"resolve"})
        => Len(AtDepth(sent, 1))
             = Len(data_types[PtFqn]) * Composites(result.value)

\* one call has resolved the same data-type reference twice, and the two
\* values differ as the Provider's answers did
SameDataTwice ==
    /\ Succeeded("sget")
    /\ Len(result.value.items) = 2
    /\ Composite(result.value.items[1].v)
    /\ Composite(result.value.items[2].v)
    /\ result.value.items[1].v # result.value.items[2].v

\* the names a class body defines
NamesOf(c) == {classes[c].dict[n].name : n \in 1..Len(classes[c].dict)}

\* the classes of the chain of c strictly before klass, most-derived first
RECURSIVE BeforeIn(_, _)
BeforeIn(klass, mro) ==
    IF mro = <<>> \/ Head(mro) = klass THEN <<>>
    ELSE <<Head(mro)>> \o BeforeIn(klass, Tail(mro))

\* the records rs can be cut into one run per class of chain, in that order,
\* each run holding cookies of that class's body only
RECURSIVE InChainOrder(_, _)
InChainOrder(rs, chain) ==
    IF chain = <<>> THEN rs = <<>>
    ELSE \E s \in 0..Len(rs) :
            /\ \A k \in 1..s : rs[k].cookie \in NamesOf(Head(chain))
            /\ InChainOrder(SubSeq(rs, s + 1, Len(rs)), Tail(chain))

\* C16: the records of a create request come from the classes strictly
\* before the declared type in the instance's chain, one run of records per
\* class with the most-derived class first; an instance of the declared type
\* itself gives a request with no record.
OnlyClassesBeforeDeclaredType ==
    Called("create") =>
        /\ CreateRequestSent
             => InChainOrder(sent[1].overrides,
                             BeforeIn(op.klass, Mro(objs[op.obj].cls)))
        /\ objs[op.obj].cls = op.klass
             => CreateRequestSent /\ sent[1].overrides = <<>>

\* an instance of the declared type itself has been created
DeclaredTypeCreated ==
    /\ Succeeded("create")
    /\ objs[op.obj].cls = op.klass
    /\ sent[1].overrides = <<>>

\* Sub and Mid each gave a record
TwoClassesGaveRecords ==
    /\ Succeeded("create")
    /\ objs[op.obj].cls = "Sub"
    /\ Len(sent[1].overrides) = 2
    /\ sent[1].overrides[1].cookie \in NamesOf("Sub") \ NamesOf("Mid")
    /\ sent[1].overrides[2].cookie \in NamesOf("Mid") \ NamesOf("Sub")

\* C19: no two records of one create request name the same remote member.
OneRecordPerRemoteMember ==
    CreateRequestSent =>
        \A k, n \in 1..Len(sent[1].overrides) :
            (/\ sent[1].overrides[k].method = sent[1].overrides[n].method
             /\ sent[1].overrides[k].property = sent[1].overrides[n].property)
                => k = n

\* C17: a delete sends one delete request and leaves the Reference Map and
\* every instance as they were, from the call to its return; hence a resolve
\* of a reference that has an entry returns the entry's live proxy and sends
\* nothing, and a get or invoke on a proxy is sent with the reference the
\* proxy holds, whether or not that reference was deleted before.
DeleteChangesNothingLocally ==
    [][/\ (op.name = "delete" \/ op'.name = "delete")
            => refs' = refs /\ objs' = objs
       /\ op'.name = "delete"
            => sent' = <<Req("delete", op'.ref, <<>>, "", <<>>, <<>>)>>
       /\ (pc = "idle" /\ op'.name = "resolve" /\ op'.ref \in DOMAIN refs)
            => /\ pc' = "done"
               /\ result' = Ok(Proxy(refs[op'.ref]))
               /\ objs'[refs[op'.ref]].alive
               /\ sent' = <<>>
       /\ (pc = "idle" /\ op'.name \in {"get", "invoke"})
            => /\ pc' = "wait"
               /\ Len(sent') = 1
               /\ sent'[1].kind = op'.name
               /\ sent'[1].objref = objs[op'.obj].ref]_vars

\* delete has returned for a reference whose entry and proxy are still there
DeleteLeftProxy ==
    /\ Succeeded("delete")
    /\ op.ref \in DOMAIN refs
    /\ objs[refs[op.ref]].alive
    /\ objs[refs[op.ref]].ref = op.ref

\* C18: at most one request is outstanding: the call waits exactly when one
\* request is unanswered, and that request is the last one sent; a request is
\* sent either when a call starts or, for a nested get of a field, in the step
\* that receives the response to the request before it.
OneRequestOutstanding ==
    [][/\ (pc' = "wait") = (pending' # NoReq)
       /\ pc' = "wait" => sent' # <<>> /\ pending' = sent'[Len(sent')]
       /\ sent' # sent
            => \/ sent' = <<>>
               \/ pc = "idle" /\ sent' = <<pending'>>
               \/ /\ pc = "wait"
                  /\ reply' # None
                  /\ sent' = Append(sent, pending')
                  /\ pending'.kind = "get"
                  /\ pending'.depth >= 1]_vars

\* a call waits for the answer to a nested get, sent after two other requests
\* were answered
NestedGetOutstanding ==
    /\ pc = "wait"
    /\ op.name \in ValueKinds
    /\ Len(sent) >= 3
    /\ pending.depth = MaxDepth

\* C20: every get, sget, invoke and sinvoke whose round trips all return ends
\* by itself: the chain of nested field gets comes to an end whatever the
\* Provider answers, so no such call is ended by the interpreter's recursion
\* limit.
NestedGetsEndByThemselves ==
    (pc = "done" /\ op.name \in ValueKinds) => result.err # "RecursionError"

====
